---- MODULE Spec2Model ----
(***************************************************************************)
(* A model of kit/runtime/goroutine of fsyyft-go/monorepo: the goroutine   *)
(* identifier readers (assembly fast path, getg() fast path, stack-header  *)
(* slow path), the version -> offset table and the build constraints that  *)
(* select one GetGoID per (GOOS, GOARCH); of kit/runtime/retry: Retry,     *)
(* RetryWithContext and Backoff; of kit/log: StdLogger and the global      *)
(* logger; and of the goroutine pool's cleanup function and statistics     *)
(* goroutine.                                                              *)
(*                                                                         *)
(* Text is a sequence of one-character strings.  A signed 64-bit integer   *)
(* is a record [neg, mag] whose magnitude is its decimal digit sequence    *)
(* without leading zeros, so that the whole int64 range is represented     *)
(* exactly (model-checker integers are 32 bits wide).                      *)
(***************************************************************************)
EXTENDS Integers, Sequences, FiniteSets, TLC

VARIABLES
    snapshot,   \* the byte slice handed to extractGID
    parsed,     \* outcome of extractGID(snapshot)
    goos,       \* GOOS of the build
    goarch,     \* GOARCH of the build
    toolchain,  \* the Go toolchain: [text |-> runtime.Version(), minor |-> release]
    pkg,        \* package initialisation of goid_offset.go: [st, offset]
    gs,         \* goroutines: slot -> [live, goid, parent]
    seenFast,   \* slot -> values GetGoID returned to the goroutine in that slot
    seenSlow,   \* slot -> values GetGoIDSlow / getGoIDSlow returned to it
    lastLoad,   \* how the latest GetGoID call obtained its value
    stackMoves, \* slot -> times the runtime has moved that goroutine's stack
    ctx,        \* the context handed to RetryWithContext
    fn,         \* the function under retry: [fails, forever, calls]
    rw,         \* the activation of RetryWithContext: [entry, pc, err, ret, doneAt]
    bk,         \* a Backoff: [attempt, factor, jitter, min, max]
    hist,       \* the latest call on bk and the Duration calls since the last Reset
    loggers,    \* the StdLogger values allocated so far: id -> [logger, fields, level]
    fieldMaps,  \* the field maps allocated so far: id -> (key -> value)
    out,        \* the lines the log.Logger instances have written
    exited,     \* whether os.Exit has ended the process
    logHist,    \* the latest call on a StdLogger
    globalLogger,     \* the package variable globalLogger (0 is nil)
    globalLoggerLock, \* the RWMutex: [r |-> holders of RLock, w |-> holder of Lock]
    callers,    \* goroutine -> its activation of GetLogger or SetLogger
    seenGlobal, \* what SetLogger installed last and what GetLogger created and returned
    pool,       \* the goroutinePool of NewGoroutinePool: [st, metrics, closed]
    statG,      \* the goroutine running stat(p)
    cleanups    \* call -> position of that call of the cleanup function

vars == <<snapshot, parsed, goos, goarch, toolchain, pkg, gs, seenFast, seenSlow,
          lastLoad, stackMoves, ctx, fn, rw, bk, hist, loggers, fieldMaps, out,
          exited, logHist, globalLogger, globalLoggerLock, callers, seenGlobal,
          pool, statG, cleanups>>

parseVars == <<snapshot, parsed>>
buildVars == <<goos, goarch, toolchain>>
goVars == <<gs, seenFast, seenSlow, lastLoad, stackMoves>>
goroutineVars == <<parseVars, buildVars, pkg, goVars>>
retryVars == <<ctx, fn, rw>>
backoffVars == <<bk, hist>>
loggerVars == <<loggers, fieldMaps, out, exited, logHist>>
globalVars == <<globalLogger, globalLoggerLock, callers, seenGlobal>>
logVars == <<loggerVars, globalVars>>
poolVars == <<pool, statG, cleanups>>
kitVars == <<retryVars, backoffVars, logVars, poolVars>>

(***************************************************************************)
(* Bounds of the model.                                                    *)
(***************************************************************************)
MaxSpan == 3        \* longest enumerated span between the label and the delimiter
MaxG == 2           \* goroutine slots (the first holds the initial goroutine)
MaxGoid == 11       \* largest identifier the scheduler hands out
MaxMinor == 27      \* newest release go1.<minor> a toolchain of the model reports
FrameBytes == 140   \* bytes of stack frames that follow the header of a snapshot
MaxMoves == 1       \* times the runtime moves the stack of one goroutine
MaxFail == 3        \* most failures of fn before it succeeds
MaxAttempt == 7     \* largest of the consecutive attempts given to ForAttempt
LargeAttempt == 12  \* an attempt at which min * factor^attempt leaves the int64 range
MaxLoggers == 3     \* StdLogger values allocated in one run
MaxRecords == 1     \* lines written in one run
MaxCallers == 2     \* goroutines that use the global logger
MaxCleanups == 3    \* calls of one pool's cleanup function
MaxTicks == 4       \* ticks of the statistics ticker in one run

(***************************************************************************)
(* Text helpers.                                                           *)
(***************************************************************************)
Digits == {"0", "1", "2", "3", "4", "5", "6", "7", "8", "9"}

DigitVal(c) ==
    CASE c = "0" -> 0 [] c = "1" -> 1 [] c = "2" -> 2 [] c = "3" -> 3
      [] c = "4" -> 4 [] c = "5" -> 5 [] c = "6" -> 6 [] c = "7" -> 7
      [] c = "8" -> 8 [] c = "9" -> 9

DigitChar(d) == <<"0", "1", "2", "3", "4", "5", "6", "7", "8", "9">>[d + 1]

\* bytes.IndexByte: the 0-based index of the first c in s, or -1.
RECURSIVE IndexFrom(_, _, _)
IndexFrom(s, c, i) ==
    IF i > Len(s) THEN -1
    ELSE IF s[i] = c THEN i - 1
    ELSE IndexFrom(s, c, i + 1)

IndexByte(s, c) == IndexFrom(s, c, 1)

(***************************************************************************)
(* Signed 64-bit integers as [neg, mag].                                   *)
(***************************************************************************)
RECURSIVE LexLess(_, _)
LexLess(a, b) ==
    IF a = <<>> THEN FALSE
    ELSE IF a[1] # b[1] THEN a[1] < b[1]
    ELSE LexLess(Tail(a), Tail(b))

\* a < b for magnitudes (digit sequences without leading zeros).
MagLess(a, b) == Len(a) < Len(b) \/ (Len(a) = Len(b) /\ LexLess(a, b))

\* n*10 + d on a magnitude.
MulAdd(n, d) == IF n = <<>> /\ d = 0 THEN <<>> ELSE Append(n, d)

MkInt(neg, mag) == [neg |-> neg /\ mag # <<>>, mag |-> mag]

I64Zero == MkInt(FALSE, <<>>)

\* 1<<63, the magnitude of math.MinInt64.
IntCutoff == <<9, 2, 2, 3, 3, 7, 2, 0, 3, 6, 8, 5, 4, 7, 7, 5, 8, 0, 8>>
MaxInt64 == MkInt(FALSE, <<9, 2, 2, 3, 3, 7, 2, 0, 3, 6, 8, 5, 4, 7, 7, 5, 8, 0, 7>>)
MinInt64 == MkInt(TRUE, IntCutoff)
\* 1<<64 - 1 and (1<<64 - 1)/10 + 1.
MaxUint64 == <<1, 8, 4, 4, 6, 7, 4, 4, 0, 7, 3, 7, 0, 9, 5, 5, 1, 6, 1, 5>>
UintCutoff == <<1, 8, 4, 4, 6, 7, 4, 4, 0, 7, 3, 7, 0, 9, 5, 5, 1, 6, 2>>

\* a < b for int64 values.
I64Less(a, b) ==
    IF a.neg /\ ~b.neg THEN TRUE
    ELSE IF ~a.neg /\ b.neg THEN FALSE
    ELSE IF a.neg THEN MagLess(b.mag, a.mag)
    ELSE MagLess(a.mag, b.mag)

\* The int64 value of a natural number of the model.
RECURSIVE NatMag(_)
NatMag(n) == IF n = 0 THEN <<>> ELSE Append(NatMag(n \div 10), n % 10)

I64(n) == MkInt(FALSE, NatMag(n))

\* The decimal text of an int64, as the runtime prints it.
FormatInt(v) ==
    (IF v.neg THEN <<"-">> ELSE <<>>)
        \o (IF v.mag = <<>> THEN <<"0">>
            ELSE [i \in 1..Len(v.mag) |-> DigitChar(v.mag[i])])

(***************************************************************************)
(* strconv.ParseInt(s, 10, 64) as extractGID calls it.                     *)
(***************************************************************************)
RECURSIVE ParseUintFrom(_, _, _)
ParseUintFrom(s, i, n) ==
    IF i > Len(s) THEN [un |-> n, err |-> "nil"]
    ELSE IF s[i] \notin Digits THEN [un |-> <<>>, err |-> "ErrSyntax"]
    ELSE IF ~MagLess(n, UintCutoff) THEN [un |-> MaxUint64, err |-> "ErrRange"]
    ELSE LET n1 == MulAdd(n, DigitVal(s[i]))
         IN  IF MagLess(MaxUint64, n1)
             THEN [un |-> MaxUint64, err |-> "ErrRange"]
             ELSE ParseUintFrom(s, i + 1, n1)

ParseUint(s) ==
    IF s = <<>> THEN [un |-> <<>>, err |-> "ErrSyntax"]
    ELSE ParseUintFrom(s, 1, <<>>)

\* ParseInt replaced by ParseUint: a sign is a syntax error.
ParseInt_Unsigned(s) ==
    LET u == ParseUint(s)
    IN  IF u.err = "nil" /\ MagLess(u.un, IntCutoff)
        THEN [val |-> MkInt(FALSE, u.un), err |-> "nil"]
        ELSE [val |-> I64Zero, err |-> u.err]

ParseInt(s) ==
    IF s = <<>> THEN [val |-> I64Zero, err |-> "ErrSyntax"]
    ELSE LET neg == s[1] = "-"
             body == IF s[1] \in {"+", "-"} THEN Tail(s) ELSE s
             u == ParseUint(body)
         IN  IF u.err = "ErrSyntax" THEN [val |-> I64Zero, err |-> "ErrSyntax"]
             ELSE IF ~neg /\ ~MagLess(u.un, IntCutoff)
                  THEN [val |-> MaxInt64, err |-> "ErrRange"]
             ELSE IF neg /\ MagLess(IntCutoff, u.un)
                  THEN [val |-> MinInt64, err |-> "ErrRange"]
             ELSE [val |-> MkInt(neg, u.un), err |-> "nil"]

(***************************************************************************)
(* extractGID.                                                             *)
(***************************************************************************)
Label == <<"g", "o", "r", "o", "u", "t", "i", "n", "e", " ">>

NotCalled == [st |-> "idle", gid |-> I64Zero]
Panicked == [st |-> "panicked", gid |-> I64Zero]
Returned(v) == [st |-> "returned", gid |-> v]

\* The span cut one byte before the delimiter: s[:IndexByte(s, ' ')-1].
extractGID_ShortSpan(s) ==
    IF Len(s) < Len(Label) THEN Panicked
    ELSE LET rest == SubSeq(s, Len(Label) + 1, Len(s))
             idx == IndexByte(rest, " ")
         IN  IF idx < 1 THEN Panicked
             ELSE Returned(ParseInt(SubSeq(rest, 1, idx - 1)).val)

\* s[len("goroutine "):] panics when s is shorter than the label; the label
\* itself is never compared.  s[:bytes.IndexByte(s, ' ')] panics on -1.
\* The error of ParseInt is dropped and its value returned.
extractGID(s) ==
    IF Len(s) < Len(Label) THEN Panicked
    ELSE LET rest == SubSeq(s, Len(Label) + 1, Len(s))
             idx == IndexByte(rest, " ")
         IN  IF idx < 0 THEN Panicked
             ELSE Returned(ParseInt(SubSeq(rest, 1, idx)).val)

(***************************************************************************)
(* Version strings and the offset table (goid_offset.go).                  *)
(***************************************************************************)
\* "go1.<minor>"
GoVer(minor) == <<"g", "o", "1", ".">> \o FormatInt(I64(minor))

\* The three forms a release reports: go1.N, go1.N.3 and go1.Nrc1.
PlainForm(minor) == GoVer(minor)
PatchForm(minor) == GoVer(minor) \o <<".", "3">>
PreForm(minor) == GoVer(minor) \o <<"r", "c", "1">>
\* A development build of the old form "devel +<hash>", which has no '.'.
DevelForm == <<"d", "e", "v", "e", "l", " ", "+", "a", "1", "b", "2", "c", "3", "d">>

Entry(minor, off) == [key |-> GoVer(minor), off |-> off]

\* The map literal, entry by entry in source order.
offsetDict ==
    << Entry(4, 128), Entry(5, 184), Entry(6, 192), Entry(7, 192), Entry(8, 192),
       Entry(9, 152), Entry(10, 152), Entry(11, 152), Entry(12, 152),
       Entry(13, 152), Entry(14, 152), Entry(15, 152), Entry(16, 152),
       Entry(17, 152), Entry(18, 152), Entry(19, 152), Entry(20, 152),
       Entry(21, 152), Entry(22, 152), Entry(23, 160), Entry(24, 160),
       Entry(25, 152) >>

DictKeys(dict) == {dict[i].key : i \in 1..Len(dict)}

\* dict[key] of a Go map: the zero value when the key is absent.
MapGet(dict, key) ==
    IF key \in DictKeys(dict)
    THEN dict[CHOOSE i \in 1..Len(dict) : dict[i].key = key].off
    ELSE 0

\* strings.Split(s, sep) for a one-byte separator.
RECURSIVE Split(_, _)
Split(s, c) ==
    LET i == IndexByte(s, c)
    IN  IF i < 0 THEN <<s>>
        ELSE <<SubSeq(s, 1, i)>> \o Split(SubSeq(s, i + 2, Len(s)), c)

\* strings.Join(parts, sep).
RECURSIVE Join(_, _)
Join(parts, c) ==
    IF parts = <<>> THEN <<>>
    ELSE IF Len(parts) = 1 THEN parts[1]
    ELSE parts[1] \o <<c>> \o Join(Tail(parts), c)

\* The key the initialiser looks up, when the slice expression [:2] is in range.
VersionKey(ver) == Join(SubSeq(Split(ver, "."), 1, 2), ".")

Uninit == [st |-> "uninit", offset |-> 0]
InitPanic == [st |-> "panicked", offset |-> 0]
Ready(off) == [st |-> "ready", offset |-> off]

\* The initialiser of the package variable offset: Split(...)[:2] panics when
\* the version holds no '.', since Split then returns a slice of capacity 1.
offset(ver) ==
    IF Len(Split(ver, ".")) < 2 THEN InitPanic
    ELSE Ready(MapGet(offsetDict, VersionKey(ver)))

\* Offset() returns the cached package variable.
Offset == pkg.offset

(***************************************************************************)
(* Build constraints of the files that define GetGoID.                     *)
(***************************************************************************)
GoIDFiles ==
    { [file |-> "goid_other", impl |-> "slow"],
      [file |-> "goid_arm64", impl |-> "getg"],
      [file |-> "goid_windows_arm64", impl |-> "slow"],
      [file |-> "goid_amd64", impl |-> "asm"] }

\* The generic file constrained by !amd64 alone.
Constraint_NoArm64(file, os, arch) ==
    CASE file = "goid_other" -> arch # "amd64"
      [] file = "goid_arm64" -> os # "windows" /\ arch = "arm64"
      [] file = "goid_windows_arm64" -> os = "windows" /\ arch = "arm64"
      [] file = "goid_amd64" -> arch = "amd64"

Constraint(file, os, arch) ==
    CASE file = "goid_other" -> arch # "arm64" /\ arch # "amd64"
      [] file = "goid_arm64" -> os # "windows" /\ arch = "arm64"
      [] file = "goid_windows_arm64" -> os = "windows" /\ arch = "arm64"
      [] file = "goid_amd64" -> arch = "amd64"

\* The definitions of GetGoID the build links for a pair.
Linked(os, arch) == {f \in GoIDFiles : Constraint(f.file, os, arch)}

(***************************************************************************)
(* The g control block: the struct copies the arm64 build compiles in, and *)
(* the words a reader finds in a live block.                               *)
(***************************************************************************)
Field(name, size) == [name |-> name, size |-> size]

\* runtime_go1.25.go: gobuf is 6 words.
G125 ==
    << Field("stack", 16), Field("stackguard0", 8), Field("stackguard1", 8),
       Field("_panic", 8), Field("_defer", 8), Field("m", 8), Field("sched", 48),
       Field("syscallsp", 8), Field("syscallpc", 8), Field("syscallbp", 8),
       Field("stktopsp", 8), Field("param", 8), Field("atomicstatus", 4),
       Field("stackLock", 4), Field("goid", 8) >>

\* runtime_go1.6.go: gobuf is 7 words, stkbar a slice header of 3 words.
G16 ==
    << Field("stack", 16), Field("stackguard0", 8), Field("stackguard1", 8),
       Field("_panic", 8), Field("_defer", 8), Field("m", 8),
       Field("stackAlloc", 8), Field("sched", 56), Field("syscallsp", 8),
       Field("syscallpc", 8), Field("stkbar", 24), Field("stkbarPos", 8),
       Field("stktopsp", 8), Field("param", 8), Field("atomicstatus", 4),
       Field("stackLock", 4), Field("goid", 8) >>

RECURSIVE FieldOffset(_, _)
FieldOffset(layout, name) ==
    IF layout[1].name = name THEN 0
    ELSE layout[1].size + FieldOffset(Tail(layout), name)

\* The struct g an arm64 build compiles in: runtime_go1.25.go under the tag
\* go1.25, runtime_go1.6.go under go1.6 && !go1.9.
CompiledG(minor) ==
    CASE minor >= 25 -> G125
      [] minor >= 6 /\ minor < 9 -> G16

\* The layout the runtime of a release gives its control blocks: the one the
\* struct copy of that release documents (releases after go1.25 keep it).
RuntimeG(minor) ==
    CASE minor >= 25 -> G125
      [] minor >= 6 /\ minor < 9 -> G16

\* g.stack.lo and g.stack.hi of the goroutine in a slot.  The stack of a slot
\* is its own 8 KiB region; when the runtime grows or shrinks a stack it
\* copies it to a fresh region and rewrites both bounds.
StackLo(slot) == I64(49152 + 8192 * slot + 65536 * stackMoves[slot])

StackHi(slot) == I64(49152 + 8192 * (slot + 1) + 65536 * stackMoves[slot])

\* The 64-bit word at byte offset off of the block in a slot: the goid where
\* the release keeps it, stack.lo and stack.hi in the first two words, zero
\* for the words no reader of the model reaches.
ReadWord(slot, off) ==
    IF off = FieldOffset(RuntimeG(toolchain.minor), "goid") THEN gs[slot].goid
    ELSE IF off = 0 THEN StackLo(slot)
    ELSE IF off = 8 THEN StackHi(slot)
    ELSE I64Zero

(***************************************************************************)
(* The slow path (getGoIDSlow) and the three GetGoID definitions.          *)
(***************************************************************************)
initialBufferSize == 128

\* runtime.Stack(buf, false): "goroutine <id> [running]:\n" and the frames,
\* cut to the length of buf.
StackText(id) ==
    Label \o FormatInt(id)
        \o <<" ", "[", "r", "u", "n", "n", "i", "n", "g", "]", ":", "\n">>
        \o [i \in 1..FrameBytes |-> "."]

\* The same text cut to one eighth of the buffer.
StackOf_Cut(id, bufLen) ==
    SubSeq(StackText(id), 1, bufLen \div 8)

\* What runtime.Stack leaves in a buffer of bufLen bytes for goroutine id: the
\* text, truncated to the buffer.
StackOf(id, bufLen) ==
    LET text == StackText(id)
    IN  SubSeq(text, 1, IF Len(text) < bufLen THEN Len(text) ELSE bufLen)

Stack(slot, bufLen) == StackOf(gs[slot].goid, bufLen)

getGoIDSlow(slot) == extractGID(Stack(slot, initialBufferSize))

GetGoIDSlow(slot) == getGoIDSlow(slot)

\* The load one word past the table offset, and through the go1.6 struct copy.
LoadOffset_Stale(impl) ==
    CASE impl = "asm" -> pkg.offset + 8
      [] impl = "getg" -> FieldOffset(G16, "goid")
      [] impl = "slow" -> -1

\* The offset a fast path loads through; -1 on the slow path.
LoadOffset(impl) ==
    CASE impl = "asm" -> pkg.offset
      [] impl = "getg" -> FieldOffset(CompiledG(toolchain.minor), "goid")
      [] impl = "slow" -> -1

\* GetGoID of the linked file: MOVQ (g + offset), getg().goid, or getGoIDSlow().
GetGoID(impl, slot) ==
    IF impl = "slow" THEN getGoIDSlow(slot)
    ELSE Returned(ReadWord(slot, LoadOffset(impl)))

(***************************************************************************)
(* kit/runtime/retry: Backoff.  A time.Duration is an int64 count of       *)
(* nanoseconds.  A float64 factor, and a draw of rand.Float64(), is a      *)
(* ratio of two small naturals; the products and quotients of ForAttempt   *)
(* are computed exactly on digit sequences.                                *)
(***************************************************************************)
\* The element of a one-element set; the digit loops below bind each
\* intermediate sum through it, so that it is computed once.
Only(S) == CHOOSE x \in S : TRUE

\* Digit i of m counted from the least significant one (0 beyond its length).
DigitAt(m, i) == IF i < Len(m) THEN m[Len(m) - i] ELSE 0

\* The digit sequence without its leading zeros.
RECURSIVE FirstNonZero(_, _)
FirstNonZero(m, i) ==
    IF i > Len(m) \/ m[i] # 0 THEN i ELSE FirstNonZero(m, i + 1)

Strip(m) == SubSeq(m, FirstNonZero(m, 1), Len(m))

\* Digits i and above of a + b + c.
RECURSIVE AddCarry(_, _, _, _)
AddCarry(a, b, i, c) ==
    IF i >= Len(a) /\ i >= Len(b) THEN NatMag(c)
    ELSE Only({Append(AddCarry(a, b, i + 1, t \div 10), t % 10) :
                  t \in {DigitAt(a, i) + DigitAt(b, i) + c}})

MagAdd(a, b) == AddCarry(a, b, 0, 0)

RECURSIVE SubBorrow(_, _, _, _)
SubBorrow(a, b, i, c) ==
    IF i >= Len(a) THEN <<>>
    ELSE Only({Append(SubBorrow(a, b, i + 1, IF t < 0 THEN 1 ELSE 0),
                      IF t < 0 THEN t + 10 ELSE t) :
                  t \in {DigitAt(a, i) - DigitAt(b, i) - c}})

\* a - b for a >= b.
MagSub(a, b) == Strip(SubBorrow(a, b, 0, 0))

RECURSIVE MulCarry(_, _, _, _)
MulCarry(a, k, i, c) ==
    IF i >= Len(a) THEN NatMag(c)
    ELSE Only({Append(MulCarry(a, k, i + 1, t \div 10), t % 10) :
                  t \in {DigitAt(a, i) * k + c}})

\* a * k for a small natural k.
MagMulSmall(a, k) == Strip(MulCarry(a, k, 0, 0))

RECURSIVE DivFrom(_, _, _, _, _)
DivFrom(a, i, k, rem, acc) ==
    IF i > Len(a) THEN acc
    ELSE Only({DivFrom(a, i + 1, k, cur % k, q) :
                  cur \in {rem * 10 + a[i]}, q \in {MulAdd(acc, (rem * 10 + a[i]) \div k)}})

\* floor(a / k) for a small positive k.
MagDivSmall(a, k) == DivFrom(a, 1, k, 0, <<>>)

\* a * k^n and floor(a / k^n), six factors of k at a time so that every
\* intermediate product stays a machine integer.
RECURSIVE MulPow(_, _, _)
MulPow(a, k, n) ==
    IF n = 0 THEN a
    ELSE LET c == IF n < 6 THEN n ELSE 6
         IN  MulPow(MagMulSmall(a, k ^ c), k, n - c)

RECURSIVE DivPow(_, _, _)
DivPow(a, k, n) ==
    IF n = 0 THEN a
    ELSE LET c == IF n < 6 THEN n ELSE 6
         IN  DivPow(MagDivSmall(a, k ^ c), k, n - c)

\* n * 10^zeros nanoseconds.
Scaled(n, zeros) ==
    IF n = 0 THEN I64Zero
    ELSE MkInt(n < 0, NatMag(IF n < 0 THEN -n ELSE n) \o [i \in 1..zeros |-> 0])

Nanoseconds(n) == Scaled(n, 0)
Milliseconds(n) == Scaled(n, 6)
Seconds(n) == Scaled(n, 9)

\* A float64 that is the ratio num/den of naturals, negated when neg.
Ratio(neg, num, den) == [neg |-> neg, num |-> num, den |-> den]

NonPositive(d) == d.neg \/ d.mag = <<>>

minDefault == Milliseconds(100)
maxDefault == Seconds(10)
factorDefault == Ratio(FALSE, 2, 1)
jitterDefault == FALSE

\* float64(math.MaxInt64 - 512): 2^63 - 513 rounds to the float 2^63 - 1024.
maxInt64 == <<9, 2, 2, 3, 3, 7, 2, 0, 3, 6, 8, 5, 4, 7, 7, 4, 7, 8, 4>>

\* The options WithMin, WithMax, WithFactor, WithJitter of one NewBackoff call:
\* each is absent (<<>>) or carries its argument (<<v>>).
NoOptions == [min |-> <<>>, max |-> <<>>, factor |-> <<>>, jitter |-> <<>>]

\* NewBackoff(opts...): the defaults, then every option in turn.
NewBackoff(opts) ==
    [ attempt |-> 0,
      factor |-> IF opts.factor = <<>> THEN factorDefault ELSE opts.factor[1],
      jitter |-> IF opts.jitter = <<>> THEN jitterDefault ELSE opts.jitter[1],
      min |-> IF opts.min = <<>> THEN minDefault ELSE opts.min[1],
      max |-> IF opts.max = <<>> THEN maxDefault ELSE opts.max[1] ]

EffMin(bo) == IF NonPositive(bo.min) THEN Milliseconds(100) ELSE bo.min
EffMax(bo) == IF NonPositive(bo.max) THEN Seconds(10) ELSE bo.max
\* A default growth of 3.
EffFactor_Three(bo) ==
    IF bo.factor.neg \/ bo.factor.num = 0 THEN Ratio(FALSE, 3, 1) ELSE bo.factor

EffFactor(bo) ==
    IF bo.factor.neg \/ bo.factor.num = 0 THEN Ratio(FALSE, 2, 1) ELSE bo.factor

\* durf as a fraction [num, den] of digit sequences: min * factor^attempt,
\* and with jitter rnd * (durf - minf) + minf.
Durf(bo, attempt, rnd) ==
    LET min == EffMin(bo).mag
        factor == EffFactor(bo)
        n == MulPow(min, factor.num, attempt)
        d == MulPow(<<1>>, factor.den, attempt)
        minD == MulPow(min, factor.den, attempt)
    IN  IF ~bo.jitter THEN [num |-> n, den |-> d]
        ELSE [ num |-> IF MagLess(n, minD)
                       THEN MagSub(MagMulSmall(minD, rnd.den),
                                   MagMulSmall(MagSub(minD, n), rnd.num))
                       ELSE MagAdd(MagMulSmall(MagSub(n, minD), rnd.num),
                                   MagMulSmall(minD, rnd.den)),
               den |-> MagMulSmall(d, rnd.den) ]

\* The clamp of ForAttempt that lets a duration below min through.
ForAttempt_NoFloor(bo, attempt, rnd) ==
    LET min == EffMin(bo)
        max == EffMax(bo)
        factor == EffFactor(bo)
        durf == Durf(bo, attempt, rnd)
        dur == MkInt(FALSE, DivPow(MagDivSmall(durf.num, IF bo.jitter THEN rnd.den ELSE 1),
                                   factor.den, attempt))
    IN  IF ~I64Less(min, max) THEN max
        ELSE IF MagLess(MulPow(MagMulSmall(maxInt64, IF bo.jitter THEN rnd.den ELSE 1),
                               factor.den, attempt), durf.num) THEN max
        ELSE IF I64Less(max, dur) THEN max
        ELSE dur

\* Backoff.ForAttempt(attempt) for a whole attempt >= 0; rnd is the value
\* rand.Float64() returns, read only when jitter is on.
ForAttempt(bo, attempt, rnd) ==
    LET min == EffMin(bo)
        max == EffMax(bo)
        factor == EffFactor(bo)
        durf == Durf(bo, attempt, rnd)
        dur == MkInt(FALSE, DivPow(MagDivSmall(durf.num, IF bo.jitter THEN rnd.den ELSE 1),
                                   factor.den, attempt))
    IN  IF ~I64Less(min, max) THEN max
        ELSE IF MagLess(MulPow(MagMulSmall(maxInt64, IF bo.jitter THEN rnd.den ELSE 1),
                               factor.den, attempt), durf.num) THEN max
        ELSE IF I64Less(dur, min) THEN min
        ELSE IF I64Less(max, dur) THEN max
        ELSE dur

\* atomic.AddUint64(&b.attempt, 1)
Advance(bo) == [bo EXCEPT !.attempt = @ + 1]

\* A Duration that reads the counter after the increment.
Duration_AfterAdd(bo, rnd) ==
    [ d |-> ForAttempt(bo, bo.attempt + 1, rnd),
      b |-> Advance(bo) ]

\* Backoff.Duration(): the duration of the current attempt; the counter is
\* incremented atomically.
Duration(bo, rnd) ==
    [ d |-> ForAttempt(bo, bo.attempt, rnd),
      b |-> Advance(bo) ]

\* Backoff.Reset()
Reset(bo) == [bo EXCEPT !.attempt = 0]

\* Backoff.Attempt()
Attempt(bo) == bo.attempt

(***************************************************************************)
(* kit/runtime/retry: Retry and RetryWithContext.                          *)
(***************************************************************************)
\* A context is context.Background() (never done), a cancellable context
\* that is not done yet, or one that was cancelled or whose deadline passed.
CtxDone(c) == c \in {"canceled", "deadline"}

\* An Err() that is nil on a done context.
CtxErr_Nil(c) == "nil"

\* ctx.Err()
CtxErr(c) ==
    CASE c = "canceled" -> "context.Canceled"
      [] c = "deadline" -> "context.DeadlineExceeded"
      [] OTHER -> "nil"

\* The function under retry: it fails on its first `fails` invocations (on
\* every invocation when `forever`) and succeeds afterwards.
Plan(fails, forever) == [fails |-> fails, forever |-> forever, calls |-> 0]

\* What the i-th invocation of fn returns: nil, or the error of that attempt.
FnResult(f, i) == IF f.forever \/ i <= f.fails THEN i ELSE 0

ErrText(e) == IF e = 0 THEN "nil" ELSE "fn error"

\* The outer select: a ready ctx.Done() is taken, never the default branch.
SelectHead_Default(c) == "default"

SelectHead(c) == IF CtxDone(c) THEN "done" ELSE "default"

NotStarted ==
    [entry |-> "none", pc |-> "idle", err |-> 0, ret |-> "none", doneAt |-> "never"]

(***************************************************************************)
(* Inputs and initial states.                                              *)
(***************************************************************************)
Slots == 1..MaxG

Dead == [live |-> FALSE, goid |-> I64Zero, parent |-> 0]
Live(id, parent) == [live |-> TRUE, goid |-> id, parent |-> parent]

NoLoad == [path |-> "none", off |-> -1]

\* Identifiers the scheduler can assign: one and two digits.
GoidDomain == {I64(n) : n \in 9..MaxGoid}

LiveGoids == {gs[s].goid : s \in {t \in Slots : gs[t].live}}

\* The scheduler assigns a new goroutine any identifier no live one holds.
FreeGoids == GoidDomain \ LiveGoids

Toolchain(text, minor) == [text |-> text, minor |-> minor]

\* Every form of every release go1.3 .. go1.MaxMinor, and a development build.
AllToolchains ==
    {Toolchain(PlainForm(m), m) : m \in 3..MaxMinor}
        \cup {Toolchain(PatchForm(m), m) : m \in 3..MaxMinor}
        \cup {Toolchain(PreForm(m), m) : m \in 3..MaxMinor}
        \cup {Toolchain(DevelForm, MaxMinor)}

\* The toolchains the goroutine model runs under: two listed releases whose
\* struct g the sources carry, a pre-release, a release newer than the table,
\* and a development build.
RunToolchains ==
    { Toolchain(PatchForm(7), 7), Toolchain(PatchForm(25), 25),
      Toolchain(PreForm(25), 25), Toolchain(PatchForm(26), 26),
      Toolchain(DevelForm, 26) }

OSes == {"linux", "darwin", "windows"}
Arches == {"amd64", "arm64", "riscv64"}

\* Spans between the label and the delimiter: every text of at most MaxSpan
\* bytes over a small alphabet, and texts around the 64-bit limits.
SpanAlphabet == {"0", "1", "9", "-", "+", "x"}

ShortSpans == UNION {[1..k -> SpanAlphabet] : k \in 0..MaxSpan}

Nines == [i \in 1..20 |-> "9"]

LimitSpans ==
    { FormatInt(MaxInt64), FormatInt(MinInt64),
      FormatInt(MkInt(FALSE, IntCutoff)),
      <<"-">> \o FormatInt(MkInt(FALSE, SubSeq(IntCutoff, 1, 18) \o <<9>>)),
      FormatInt(MkInt(FALSE, MaxUint64)),
      Nines, Nines \o <<"x">>,
      [i \in 1..21 |-> "0"] \o <<"4", "2">> }

Rests == {<<>>, <<" ">>, <<" ", "7", " ", "x">>}

\* Identifiers whose snapshot getGoIDSlow parses: the ends of the int64
\* range and the small ones of either sign.
StackIds ==
    {MaxInt64, MinInt64} \cup {MkInt(n, NatMag(k)) : n \in BOOLEAN, k \in 0..MaxGoid}

Snapshots ==
    {SubSeq(Label, 1, k) : k \in 0..(Len(Label) - 1)}
        \cup {Label \o sp \o r : sp \in ShortSpans \cup LimitSpans, r \in Rests}
        \cup {StackOf(id, initialBufferSize) : id \in StackIds}

ParseIdle == snapshot = <<>> /\ parsed = NotCalled

BuildIdle ==
    /\ goos = "linux"
    /\ goarch = "amd64"
    /\ toolchain = Toolchain(PatchForm(25), 25)

GoIdle ==
    /\ gs = [s \in Slots |-> Dead]
    /\ seenFast = [s \in Slots |-> {}]
    /\ seenSlow = [s \in Slots |-> {}]
    /\ lastLoad = NoLoad
    /\ stackMoves = [s \in Slots |-> 0]

\* Contexts a caller hands to RetryWithContext.
Contexts == {"background", "pending", "canceled", "deadline"}

\* fn fails 0..MaxFail times and then succeeds, or fails on every invocation.
Plans == {Plan(k, FALSE) : k \in 0..MaxFail} \cup {Plan(0, TRUE)}

\* fn invocations and Duration calls the model counts; a counter at MaxCalls
\* stands for MaxCalls or more.
MaxCalls == MaxFail + 2

\* Values of rand.Float64(), in [0, 1).
NoDraw == Ratio(FALSE, 0, 1)

RandSamples == {NoDraw, Ratio(FALSE, 1, 2), Ratio(FALSE, 3, 4)}

Draws(bo) == IF bo.jitter THEN RandSamples ELSE {NoDraw}

Opt(S) == {<<>>} \cup {<<v>> : v \in S}

\* Arguments of the options: non-positive values, the values of the tests,
\* a min above max, a factor below one and a large one.
MinArgs == {I64Zero, Nanoseconds(-5), Nanoseconds(100), Seconds(500)}

MaxArgs == {I64Zero, Nanoseconds(1000), Seconds(100)}

FactorArgs ==
    { Ratio(FALSE, 0, 1), Ratio(TRUE, 3, 2), Ratio(FALSE, 3, 2), Ratio(FALSE, 7, 4),
      Ratio(FALSE, 1, 2), Ratio(FALSE, 10, 1) }

OptionSets ==
    [min : Opt(MinArgs), max : Opt(MaxArgs), factor : Opt(FactorArgs),
     jitter : Opt({TRUE})]

\* The options the retry model passes on: none, and a short jittered wait.
RetryOptions ==
    { NoOptions,
      [min |-> <<Nanoseconds(100)>>, max |-> <<>>, factor |-> <<Ratio(FALSE, 3, 2)>>,
       jitter |-> <<TRUE>>] }

\* The options of the Backoff whose counter the model follows: those of the
\* tests (default or 100ns min, growth by 2, 1.5 or 1.75, a min above max),
\* with and without jitter.
CounterOptions ==
    {o \in OptionSets :
        /\ o.min \in {<<>>, <<Nanoseconds(100)>>, <<Seconds(500)>>}
        /\ o.max \in {<<>>, <<Seconds(100)>>}
        /\ o.factor \in {<<>>, <<Ratio(FALSE, 3, 2)>>, <<Ratio(FALSE, 7, 4)>>}}

AttemptSamples == 0..MaxAttempt \cup {LargeAttempt}

\* op: the latest call; d, a: the duration or the count it returned (a is
\* the argument of a ForAttempt call); pre: the counter before it; rnd: the
\* value rand.Float64() gave it; calls: Duration calls since construction or
\* the latest Reset; reset: whether Reset was called.
NoHist ==
    [op |-> "none", d |-> I64Zero, a |-> 0, pre |-> 0, rnd |-> NoDraw, calls |-> 0,
     reset |-> FALSE]

RetryIdle ==
    /\ ctx = "background"
    /\ fn = Plan(0, FALSE)
    /\ rw = NotStarted

BackoffIdle ==
    /\ bk = NewBackoff(NoOptions)
    /\ hist = NoHist

(***************************************************************************)
(* Operations.                                                             *)
(***************************************************************************)
\* extractGID applied to the snapshot.
CallExtractGID ==
    /\ parsed.st = "idle"
    /\ parsed' = extractGID(snapshot)
    /\ UNCHANGED <<snapshot, buildVars, pkg, goVars, kitVars>>

\* Package initialisation: goid_offset.go is compiled on amd64 only.
PackageInit ==
    /\ pkg.st = "uninit"
    /\ pkg' = IF goarch = "amd64" THEN offset(toolchain.text) ELSE Ready(0)
    /\ UNCHANGED <<parseVars, buildVars, goVars, kitVars>>

\* go func() {...}(): goroutine p starts a goroutine in a free slot.
Spawn(p, s) ==
    /\ pkg.st = "ready"
    /\ gs[p].live
    /\ ~gs[s].live
    /\ \E id \in FreeGoids :
          gs' = [gs EXCEPT ![s] = Live(id, p)]
    /\ seenFast' = [seenFast EXCEPT ![s] = {}]
    /\ seenSlow' = [seenSlow EXCEPT ![s] = {}]
    /\ stackMoves' = [stackMoves EXCEPT ![s] = 0]
    /\ UNCHANGED <<parseVars, buildVars, pkg, lastLoad, kitVars>>

\* A goroutine other than the initial one returns; what it observed goes
\* with it, and its children no longer have a live parent.
Exit(s) ==
    /\ pkg.st = "ready"
    /\ s # 1
    /\ gs[s].live
    /\ gs' = [t \in Slots |->
                IF t = s THEN Dead
                ELSE IF gs[t].parent = s THEN [gs[t] EXCEPT !.parent = 0]
                ELSE gs[t]]
    /\ seenFast' = [seenFast EXCEPT ![s] = {}]
    /\ seenSlow' = [seenSlow EXCEPT ![s] = {}]
    /\ stackMoves' = [stackMoves EXCEPT ![s] = 0]
    /\ UNCHANGED <<parseVars, buildVars, pkg, lastLoad, kitVars>>

\* The goroutine in slot s calls GetGoID() of a linked definition.
CallGetGoID(s) ==
    /\ pkg.st = "ready"
    /\ gs[s].live
    /\ \E f \in Linked(goos, goarch) :
          LET r == GetGoID(f.impl, s)
          IN  /\ lastLoad' = [path |-> f.impl, off |-> LoadOffset(f.impl)]
              /\ IF r.st = "panicked"
                 THEN /\ pkg' = [pkg EXCEPT !.st = "panicked"]
                      /\ UNCHANGED seenFast
                 ELSE /\ seenFast' = [seenFast EXCEPT ![s] = @ \cup {r.gid}]
                      /\ UNCHANGED pkg
    /\ UNCHANGED <<parseVars, buildVars, gs, seenSlow, stackMoves, kitVars>>

\* The goroutine in slot s calls GetGoIDSlow().
CallGetGoIDSlow(s) ==
    /\ pkg.st = "ready"
    /\ gs[s].live
    /\ LET r == GetGoIDSlow(s)
       IN  IF r.st = "panicked"
           THEN /\ pkg' = [pkg EXCEPT !.st = "panicked"]
                /\ UNCHANGED seenSlow
           ELSE /\ seenSlow' = [seenSlow EXCEPT ![s] = @ \cup {r.gid}]
                /\ UNCHANGED pkg
    /\ UNCHANGED <<parseVars, buildVars, gs, seenFast, lastLoad, stackMoves, kitVars>>

\* The runtime moves the stack of the goroutine in slot s (growth in a
\* function prologue, or shrinking during a collection); g.goid is not
\* touched.
MoveStack(s) ==
    /\ pkg.st = "ready"
    /\ gs[s].live
    /\ stackMoves[s] < MaxMoves
    /\ stackMoves' = [stackMoves EXCEPT ![s] = @ + 1]
    /\ UNCHANGED <<parseVars, buildVars, pkg, gs, seenFast, seenSlow, lastLoad, kitVars>>

\* Retry(fn, opts...): RetryWithContext with context.Background().
CallRetry(opts) ==
    /\ rw.pc = "idle"
    /\ ctx = "background"
    /\ rw' = [rw EXCEPT !.entry = "Retry", !.pc = "head"]
    /\ bk' = NewBackoff(opts)
    /\ UNCHANGED <<goroutineVars, logVars, poolVars, ctx, fn, hist>>

\* RetryWithContext(ctx, fn, opts...) up to the loop.
CallRetryWithContext(opts) ==
    /\ rw.pc = "idle"
    /\ rw' = [rw EXCEPT !.entry = "RetryWithContext", !.pc = "head",
                        !.doneAt = IF CtxDone(ctx) THEN "call" ELSE "never"]
    /\ bk' = NewBackoff(opts)
    /\ UNCHANGED <<goroutineVars, logVars, poolVars, ctx, fn, hist>>

\* The caller cancels the context, or its deadline passes, while the call
\* is in progress.
CtxEnds(how) ==
    /\ ctx = "pending"
    /\ rw.pc \in {"head", "attempt", "wait"}
    /\ ctx' = how
    /\ rw' = [rw EXCEPT !.doneAt = rw.pc]
    /\ UNCHANGED <<goroutineVars, logVars, poolVars, fn, backoffVars>>

\* The outer select: return ctx.Err() when ctx is done, else invoke fn.
LoopHead ==
    /\ rw.pc = "head"
    /\ IF SelectHead(ctx) = "done"
       THEN /\ rw' = [rw EXCEPT !.pc = "returned", !.ret = CtxErr(ctx)]
            /\ UNCHANGED fn
       ELSE /\ fn' = [fn EXCEPT !.calls = IF @ < MaxCalls THEN @ + 1 ELSE @]
            /\ rw' = [rw EXCEPT !.pc = "attempt"]
    /\ UNCHANGED <<goroutineVars, logVars, poolVars, ctx, backoffVars>>

\* fn returns: nil ends the call; an error is kept in err and b.Duration()
\* advances the Backoff.  The delay it returns only times the wait, which
\* ends when the timer fires (WaitTimer).
AttemptReturns ==
    /\ rw.pc = "attempt"
    /\ LET e == FnResult(fn, fn.calls)
       IN  IF e = 0
           THEN /\ rw' = [rw EXCEPT !.pc = "returned", !.err = e, !.ret = "nil"]
                /\ UNCHANGED bk
           ELSE /\ rw' = [rw EXCEPT !.pc = "wait", !.err = e]
                /\ bk' = IF bk.attempt < MaxCalls THEN Advance(bk) ELSE bk
    /\ UNCHANGED <<goroutineVars, logVars, poolVars, ctx, fn, hist>>

\* The inner select takes ctx.Done().
WaitCtxDone ==
    /\ rw.pc = "wait"
    /\ CtxDone(ctx)
    /\ rw' = [rw EXCEPT !.pc = "returned", !.ret = CtxErr(ctx)]
    /\ UNCHANGED <<goroutineVars, logVars, poolVars, ctx, fn, backoffVars>>

\* The timer branch returning the error of the attempt.
WaitTimer_Return ==
    /\ rw.pc = "wait"
    /\ rw' = [rw EXCEPT !.pc = "returned", !.ret = ErrText(rw.err)]
    /\ UNCHANGED <<goroutineVars, logVars, poolVars, ctx, fn, backoffVars>>

\* The inner select takes time.After(delay): continue.
WaitTimer ==
    /\ rw.pc = "wait"
    /\ rw' = [rw EXCEPT !.pc = "head"]
    /\ UNCHANGED <<goroutineVars, logVars, poolVars, ctx, fn, backoffVars>>

\* bk.Duration()
CallDuration ==
    /\ bk.attempt < MaxCalls
    /\ \E rnd \in Draws(bk) :
          LET r == Duration(bk, rnd)
          IN  /\ bk' = r.b
              /\ hist' = [op |-> "Duration", d |-> r.d, a |-> bk.attempt,
                          pre |-> bk.attempt, rnd |-> rnd, calls |-> hist.calls + 1,
                          reset |-> hist.reset]
    /\ UNCHANGED <<goroutineVars, logVars, poolVars, retryVars>>

\* bk.Reset()
CallReset ==
    /\ bk' = Reset(bk)
    /\ hist' = [NoHist EXCEPT !.op = "Reset", !.pre = bk.attempt, !.reset = TRUE]
    /\ UNCHANGED <<goroutineVars, logVars, poolVars, retryVars>>

\* bk.Attempt()
CallAttempt ==
    /\ hist' = [hist EXCEPT !.op = "Attempt", !.a = Attempt(bk), !.pre = bk.attempt,
                            !.d = I64Zero, !.rnd = NoDraw]
    /\ UNCHANGED <<goroutineVars, logVars, poolVars, retryVars, bk>>

\* bk.ForAttempt(n)
CallForAttempt(n) ==
    /\ \E rnd \in Draws(bk) :
          hist' = [hist EXCEPT !.op = "ForAttempt", !.d = ForAttempt(bk, n, rnd),
                              !.a = n, !.pre = bk.attempt, !.rnd = rnd]
    /\ UNCHANGED <<goroutineVars, logVars, poolVars, retryVars, bk>>

(***************************************************************************)
(* kit/log: the StdLogger and the global logger.  A map is a function      *)
(* whose domain is its key set; a *StdLogger and a map are identified by   *)
(* their position in loggers and fieldMaps, so that two references to one  *)
(* map are distinguishable from two equal maps.                            *)
(***************************************************************************)
DebugLevel == 0
InfoLevel == 1
WarnLevel == 2
ErrorLevel == 3
FatalLevel == 4

\* The levelStr each method of StdLogger passes to log and logf.
LevelStr(level) ==
    CASE level = DebugLevel -> "[DEBUG]"
      [] level = InfoLevel -> "[INFO]"
      [] level = WarnLevel -> "[WARN]"
      [] level = ErrorLevel -> "[ERROR]"
      [] level = FatalLevel -> "[FATAL]"

\* make(map[string]interface{})
EmptyMap == [k \in {} |-> "v1"]

\* newFields[key] = value
Put(m, key, value) ==
    [k \in DOMAIN m \cup {key} |-> IF k = key THEN value ELSE m[k]]

\* for k, v := range src { dst[k] = v }
RECURSIVE CopyInto(_, _, _)
CopyInto(dst, src, todo) ==
    IF todo = {} THEN dst
    ELSE LET k == CHOOSE x \in todo : TRUE
         IN  CopyInto(Put(dst, k, src[k]), src, todo \ {k})

\* &StdLogger{logger: log.New(writer, "", log.LstdFlags), fields: make(...),
\* level: InfoLevel}: the new logger writes through a log.Logger of its own.
NewStdLogger(ls, fm) ==
    [loggers |-> Append(ls, [logger |-> Len(ls) + 1, fields |-> Len(fm) + 1,
                             level |-> InfoLevel]),
     fieldMaps |-> Append(fm, EmptyMap),
     r |-> Len(ls) + 1]

\* l.level = level
SetLevel(ls, l, level) == [ls EXCEPT ![l].level = level]

\* NewLogger with Type LogTypeStd or LogTypeConsole and Level level.
NewLogger(ls, fm, level) ==
    LET n == NewStdLogger(ls, fm)
    IN  [n EXCEPT !.loggers = SetLevel(n.loggers, n.r, level)]

shouldLog_Above(ls, l, level) == level > ls[l].level

shouldLog(ls, l, level) == level >= ls[l].level

\* The texts formatFields can return: "" for no field, else the k=v pairs in
\* the order the range over the map happens to take.
formatFields(m) ==
    IF DOMAIN m = {} THEN {<<>>}
    ELSE {s \in [1..Cardinality(DOMAIN m) -> {<<k, m[k]>> : k \in DOMAIN m}] :
             \A i, j \in DOMAIN s : i # j => s[i] # s[j]}

\* log and logf: the lines one call may append to the output.
log(ls, fm, l, logLevel, levelStr, msg) ==
    IF ~shouldLog(ls, l, logLevel) THEN {<<>>}
    ELSE {<<[logger |-> ls[l].logger, level |-> levelStr, fields |-> f, msg |-> msg]>> :
             f \in formatFields(fm[ls[l].fields])}

WithField_Alias(ls, fm, l, key, value) ==
    [loggers |-> Append(ls, [logger |-> ls[l].logger, fields |-> ls[l].fields,
                             level |-> ls[l].level]),
     fieldMaps |-> [fm EXCEPT ![ls[l].fields] = Put(@, key, value)],
     r |-> Len(ls) + 1]

WithField(ls, fm, l, key, value) ==
    LET newFields == Put(CopyInto(EmptyMap, fm[ls[l].fields], DOMAIN fm[ls[l].fields]),
                         key, value)
    IN  [loggers |-> Append(ls, [logger |-> ls[l].logger, fields |-> Len(fm) + 1,
                                 level |-> ls[l].level]),
         fieldMaps |-> Append(fm, newFields),
         r |-> Len(ls) + 1]

WithFields(ls, fm, l, fields) ==
    LET own == CopyInto(EmptyMap, fm[ls[l].fields], DOMAIN fm[ls[l].fields])
        newFields == CopyInto(own, fields, DOMAIN fields)
    IN  [loggers |-> Append(ls, [logger |-> ls[l].logger, fields |-> Len(fm) + 1,
                                 level |-> ls[l].level]),
         fieldMaps |-> Append(fm, newFields),
         r |-> Len(ls) + 1]

\* Arguments of the calls.
Keys == {"k1", "k2"}
Values == {"v1", "v2"}
Msgs == {"m"}
FieldArgs == UNION {[S -> Values] : S \in SUBSET Keys}
LevelArgs == {DebugLevel, WarnLevel, FatalLevel + 1}
LogLevels == {DebugLevel, InfoLevel, WarnLevel, ErrorLevel}

NoLogCall ==
    [op |-> "none", l |-> 0, level |-> 0, added |-> EmptyMap, r |-> 0,
     preFields |-> EmptyMap, preLevel |-> 0, preOut |-> 0]

\* The goroutines that call GetLogger and SetLogger.
Callers == 1..MaxCallers

NotCalling == [op |-> "none", pc |-> "idle", arg |-> 0, stdLogger |-> 0, ret |-> 0,
               since |-> 0]

NothingSeen == [set |-> 0, created |-> {}, returned |-> {}]

Unlocked == [r |-> {}, w |-> 0]

LoggerIdle ==
    /\ loggers = <<>>
    /\ fieldMaps = <<>>
    /\ out = <<>>
    /\ exited = FALSE
    /\ logHist = NoLogCall

GlobalIdle ==
    /\ globalLogger = 0
    /\ globalLoggerLock = Unlocked
    /\ callers = [t \in Callers |-> NotCalling]
    /\ seenGlobal = NothingSeen

LogIdle == LoggerIdle /\ GlobalIdle

\* l.SetLevel(level)
CallSetLevel(l, level) ==
    /\ ~exited
    /\ loggers' = SetLevel(loggers, l, level)
    /\ logHist' = [NoLogCall EXCEPT !.op = "SetLevel", !.l = l, !.level = level,
                                    !.preLevel = loggers[l].level, !.preOut = Len(out)]
    /\ UNCHANGED <<goroutineVars, retryVars, backoffVars, fieldMaps, out, exited,
                   globalVars, poolVars>>

\* l.Debug, l.Debugf, l.Info, l.Infof, l.Warn, l.Warnf, l.Error, l.Errorf
CallLog(l, level, msg) ==
    /\ ~exited
    /\ Len(out) < MaxRecords
    /\ \E lines \in log(loggers, fieldMaps, l, level, LevelStr(level), msg) :
          out' = out \o lines
    /\ logHist' = [NoLogCall EXCEPT !.op = "log", !.l = l, !.level = level,
                                    !.preLevel = loggers[l].level, !.preOut = Len(out)]
    /\ UNCHANGED <<goroutineVars, retryVars, backoffVars, loggers, fieldMaps, exited,
                   globalVars, poolVars>>

\* l.Fatal, l.Fatalf: log, then os.Exit(1)
CallFatal(l, msg) ==
    /\ ~exited
    /\ Len(out) < MaxRecords
    /\ \E lines \in log(loggers, fieldMaps, l, FatalLevel, LevelStr(FatalLevel), msg) :
          out' = out \o lines
    /\ exited' = TRUE
    /\ logHist' = [NoLogCall EXCEPT !.op = "Fatal", !.l = l, !.level = FatalLevel,
                                    !.preLevel = loggers[l].level, !.preOut = Len(out)]
    /\ UNCHANGED <<goroutineVars, retryVars, backoffVars, loggers, fieldMaps,
                   globalVars, poolVars>>

\* l.WithField(key, value)
CallWithField(l, key, value) ==
    /\ ~exited
    /\ Len(loggers) < MaxLoggers
    /\ LET n == WithField(loggers, fieldMaps, l, key, value)
       IN  /\ loggers' = n.loggers
           /\ fieldMaps' = n.fieldMaps
           /\ logHist' = [NoLogCall EXCEPT !.op = "WithField", !.l = l, !.r = n.r,
                              !.added = Put(EmptyMap, key, value),
                              !.preFields = fieldMaps[loggers[l].fields],
                              !.preLevel = loggers[l].level, !.preOut = Len(out)]
    /\ UNCHANGED <<goroutineVars, retryVars, backoffVars, out, exited, globalVars,
                   poolVars>>

\* l.WithFields(fields)
CallWithFields(l, fields) ==
    /\ ~exited
    /\ Len(loggers) < MaxLoggers
    /\ LET n == WithFields(loggers, fieldMaps, l, fields)
       IN  /\ loggers' = n.loggers
           /\ fieldMaps' = n.fieldMaps
           /\ logHist' = [NoLogCall EXCEPT !.op = "WithFields", !.l = l, !.r = n.r,
                              !.added = fields,
                              !.preFields = fieldMaps[loggers[l].fields],
                              !.preLevel = loggers[l].level, !.preOut = Len(out)]
    /\ UNCHANGED <<goroutineVars, retryVars, backoffVars, out, exited, globalVars,
                   poolVars>>

\* A goroutine calls GetLogger().
CallGetLogger(t) ==
    /\ callers[t].pc = "idle"
    /\ callers' = [callers EXCEPT ![t] = [NotCalling EXCEPT !.op = "GetLogger",
                       !.pc = "rlock", !.since = seenGlobal.set]]
    /\ UNCHANGED <<goroutineVars, retryVars, backoffVars, loggerVars, globalLogger,
                   globalLoggerLock, seenGlobal, poolVars>>

\* globalLoggerLock.RLock(): shared with the other readers.
GetRLock(t) ==
    /\ callers[t].pc = "rlock"
    /\ globalLoggerLock.w = 0
    /\ globalLoggerLock' = [globalLoggerLock EXCEPT !.r = @ \cup {t}]
    /\ callers' = [callers EXCEPT ![t].pc = "check"]
    /\ UNCHANGED <<goroutineVars, retryVars, backoffVars, loggerVars, globalLogger,
                   seenGlobal, poolVars>>

\* if nil == globalLogger
GetCheck(t) ==
    /\ callers[t].pc = "check"
    /\ callers' = [callers EXCEPT ![t].pc = IF globalLogger = 0 THEN "new" ELSE "return"]
    /\ UNCHANGED <<goroutineVars, retryVars, backoffVars, loggerVars, globalLogger,
                   globalLoggerLock, seenGlobal, poolVars>>

\* stdLogger, err := NewLogger(): with no option err is nil.
GetNew(t) ==
    /\ callers[t].pc = "new"
    /\ LET n == NewLogger(loggers, fieldMaps, InfoLevel)
       IN  /\ loggers' = n.loggers
           /\ fieldMaps' = n.fieldMaps
           /\ callers' = [callers EXCEPT ![t].pc = "store", ![t].stdLogger = n.r]
           /\ seenGlobal' = [seenGlobal EXCEPT !.created = @ \cup {n.r}]
    /\ UNCHANGED <<goroutineVars, retryVars, backoffVars, out, exited, logHist,
                   globalLogger, globalLoggerLock, poolVars>>

\* globalLogger = stdLogger, written while holding the read lock only.
GetStore(t) ==
    /\ callers[t].pc = "store"
    /\ globalLogger' = callers[t].stdLogger
    /\ callers' = [callers EXCEPT ![t].pc = "return"]
    /\ UNCHANGED <<goroutineVars, retryVars, backoffVars, loggerVars, globalLoggerLock,
                   seenGlobal, poolVars>>

\* return globalLogger, then the deferred RUnlock.
GetReturn(t) ==
    /\ callers[t].pc = "return"
    /\ callers' = [callers EXCEPT ![t].pc = "idle", ![t].ret = globalLogger]
    /\ globalLoggerLock' = [globalLoggerLock EXCEPT !.r = @ \ {t}]
    /\ seenGlobal' = IF seenGlobal.set = 0
                     THEN [seenGlobal EXCEPT !.returned = @ \cup {globalLogger}]
                     ELSE seenGlobal
    /\ UNCHANGED <<goroutineVars, retryVars, backoffVars, loggerVars, globalLogger,
                   poolVars>>

\* A goroutine calls SetLogger(logger) with a logger it holds.
CallSetLogger(t, logger) ==
    /\ callers[t].pc = "idle"
    /\ callers' = [callers EXCEPT ![t] = [NotCalling EXCEPT !.op = "SetLogger",
                       !.pc = "lock", !.arg = logger]]
    /\ UNCHANGED <<goroutineVars, retryVars, backoffVars, loggerVars, globalLogger,
                   globalLoggerLock, seenGlobal, poolVars>>

\* globalLoggerLock.Lock(): exclusive.
SetLock(t) ==
    /\ callers[t].pc = "lock"
    /\ globalLoggerLock = Unlocked
    /\ globalLoggerLock' = [globalLoggerLock EXCEPT !.w = t]
    /\ callers' = [callers EXCEPT ![t].pc = "assign"]
    /\ UNCHANGED <<goroutineVars, retryVars, backoffVars, loggerVars, globalLogger,
                   seenGlobal, poolVars>>

\* globalLogger = logger, then the deferred Unlock and the return.  A
\* GetLogger call in progress no longer counts as later than one SetLogger.
SetAssign(t) ==
    /\ callers[t].pc = "assign"
    /\ globalLogger' = callers[t].arg
    /\ globalLoggerLock' = Unlocked
    /\ callers' = [u \in Callers |->
                     IF u = t THEN [callers[t] EXCEPT !.pc = "idle"]
                     ELSE IF callers[u].pc # "idle" THEN [callers[u] EXCEPT !.since = -1]
                     ELSE callers[u]]
    /\ seenGlobal' = [seenGlobal EXCEPT !.set = callers[t].arg]
    /\ UNCHANGED <<goroutineVars, retryVars, backoffVars, loggerVars, poolVars>>

(***************************************************************************)
(* kit/runtime/goroutine: the pool's closed channel, the cleanup function  *)
(* and the statistics goroutine.                                           *)
(***************************************************************************)
\* closed: make(chan struct{}, 1)
closedCap == 1

\* pool.closed is the number of values buffered in p.closed.
NoPool == [st |-> "none", metrics |-> FALSE, closed |-> 0]

\* tick: a value waits in ticker.C; published: rounds of MetricWorkerCurrent
\* updates; got: the value of p.closed was received; late: rounds after that.
NoStat == [pc |-> "none", tick |-> FALSE, published |-> 0, got |-> FALSE, late |-> 0]

Cleanups == 1..MaxCleanups

PoolIdle ==
    /\ pool = NoPool
    /\ statG = NoStat
    /\ cleanups = [c \in Cleanups |-> "idle"]

\* NewGoroutinePool(WithMetrics(metrics)); ok tells whether ants.NewPool
\* accepted the options.  Without ok no cleanup function is returned.
CallNewGoroutinePool(metrics, ok) ==
    /\ pool.st = "none"
    /\ pool' = IF ok THEN [st |-> "ready", metrics |-> metrics, closed |-> 0]
               ELSE [NoPool EXCEPT !.st = "failed"]
    /\ statG' = IF ok /\ metrics THEN [NoStat EXCEPT !.pc = "select"] ELSE NoStat
    /\ UNCHANGED <<goroutineVars, retryVars, backoffVars, logVars, cleanups>>

\* The ticker of stat sends on ticker.C, which buffers one value.
Tick ==
    /\ statG.pc = "select"
    /\ ~statG.tick
    /\ statG.published < MaxTicks
    /\ statG' = [statG EXCEPT !.tick = TRUE]
    /\ UNCHANGED <<goroutineVars, retryVars, backoffVars, logVars, pool, cleanups>>

\* case <-ticker.C: the four gauges are set.
StatTick ==
    /\ statG.pc = "select"
    /\ statG.tick
    /\ statG' = [statG EXCEPT !.tick = FALSE, !.published = @ + 1,
                              !.late = IF statG.got THEN @ + 1 ELSE @]
    /\ UNCHANGED <<goroutineVars, retryVars, backoffVars, logVars, pool, cleanups>>

StatClosed_Continue ==
    /\ statG.pc = "select"
    /\ pool.closed > 0
    /\ pool' = [pool EXCEPT !.closed = @ - 1]
    /\ statG' = [statG EXCEPT !.got = TRUE]
    /\ UNCHANGED <<goroutineVars, retryVars, backoffVars, logVars, cleanups>>

\* case <-p.closed: return
StatClosed ==
    /\ statG.pc = "select"
    /\ pool.closed > 0
    /\ pool' = [pool EXCEPT !.closed = @ - 1]
    /\ statG' = [statG EXCEPT !.pc = "exited", !.got = TRUE]
    /\ UNCHANGED <<goroutineVars, retryVars, backoffVars, logVars, cleanups>>

\* The owner of the pool calls cleanup() once more, after its earlier calls
\* have returned.
CallCleanup(c) ==
    /\ pool.st = "ready"
    /\ cleanups[c] = "idle"
    /\ \A e \in Cleanups : e < c => cleanups[e] = "returned"
    /\ cleanups' = [cleanups EXCEPT ![c] = "send"]
    /\ UNCHANGED <<goroutineVars, retryVars, backoffVars, logVars, pool, statG>>

\* p.closed <- struct{}{}: proceeds when the buffer has room.
CleanupSend(c) ==
    /\ cleanups[c] = "send"
    /\ pool.closed < closedCap
    /\ pool' = [pool EXCEPT !.closed = @ + 1]
    /\ cleanups' = [cleanups EXCEPT ![c] = "release"]
    /\ UNCHANGED <<goroutineVars, retryVars, backoffVars, logVars, statG>>

\* p.pool.ReleaseTimeout(10 * time.Second) returns nil or an error; cleanup
\* returns in both cases.
CleanupRelease(c) ==
    /\ cleanups[c] = "release"
    /\ cleanups' = [cleanups EXCEPT ![c] = "returned"]
    /\ UNCHANGED <<goroutineVars, retryVars, backoffVars, logVars, pool, statG>>

(***************************************************************************)
(* Specifications.                                                         *)
(***************************************************************************)
\* The goroutine readers under every build and the run toolchains.
Init ==
    /\ ParseIdle
    /\ goos \in OSes
    /\ goarch \in Arches
    /\ toolchain \in RunToolchains
    /\ pkg = Uninit
    /\ \E id \in GoidDomain :
          gs = [s \in Slots |-> IF s = 1 THEN Live(id, 0) ELSE Dead]
    /\ seenFast = [s \in Slots |-> {}]
    /\ seenSlow = [s \in Slots |-> {}]
    /\ lastLoad = NoLoad
    /\ stackMoves = [s \in Slots |-> 0]
    /\ RetryIdle
    /\ BackoffIdle
    /\ LogIdle
    /\ PoolIdle

Next ==
    \/ PackageInit
    \/ \E p \in Slots, s \in Slots : Spawn(p, s)
    \/ \E s \in Slots : Exit(s)
    \/ \E s \in Slots : CallGetGoID(s)
    \/ \E s \in Slots : CallGetGoIDSlow(s)

Spec == Init /\ [][Next]_vars

\* One goroutine that calls GetGoID() repeatedly while the runtime manages
\* its stack, under every build and the run toolchains.
InitStack == Init

NextStack ==
    \/ PackageInit
    \/ \E s \in Slots : CallGetGoID(s)
    \/ \E s \in Slots : CallGetGoIDSlow(s)
    \/ \E s \in Slots : MoveStack(s)

SpecStack == InitStack /\ [][NextStack]_vars

\* extractGID on every enumerated snapshot.
InitParse ==
    /\ snapshot \in Snapshots
    /\ parsed = NotCalled
    /\ BuildIdle
    /\ pkg = Uninit
    /\ GoIdle
    /\ RetryIdle
    /\ BackoffIdle
    /\ LogIdle
    /\ PoolIdle

NextParse == CallExtractGID

SpecParse == InitParse /\ [][NextParse]_vars

\* Offset resolution on amd64 under every toolchain.
InitOffset ==
    /\ ParseIdle
    /\ goos = "linux"
    /\ goarch = "amd64"
    /\ toolchain \in AllToolchains
    /\ pkg = Uninit
    /\ GoIdle
    /\ RetryIdle
    /\ BackoffIdle
    /\ LogIdle
    /\ PoolIdle

NextOffset == PackageInit

SpecOffset == InitOffset /\ [][NextOffset]_vars

\* One call of Retry or RetryWithContext, with every context and every plan
\* of fn.
InitRetry ==
    /\ ParseIdle
    /\ BuildIdle
    /\ pkg = Uninit
    /\ GoIdle
    /\ ctx \in Contexts
    /\ fn \in Plans
    /\ rw = NotStarted
    /\ BackoffIdle
    /\ LogIdle
    /\ PoolIdle

NextRetry ==
    \/ \E opts \in RetryOptions : CallRetry(opts)
    \/ \E opts \in RetryOptions : CallRetryWithContext(opts)
    \/ \E how \in {"canceled", "deadline"} : CtxEnds(how)
    \/ LoopHead
    \/ AttemptReturns
    \/ WaitCtxDone
    \/ WaitTimer

SpecRetry == InitRetry /\ [][NextRetry]_vars

\* The scheduler runs the goroutine inside RetryWithContext, fn returns, and
\* the timer of time.After fires.
FairRetry ==
    /\ WF_vars(LoopHead)
    /\ WF_vars(AttemptReturns)
    /\ WF_vars(WaitTimer)
    /\ WF_vars(\E opts \in RetryOptions : CallRetry(opts))

SpecRetryFair == InitRetry /\ [][NextRetry]_vars /\ FairRetry

\* Duration, Reset and Attempt on one Backoff.
InitBackoff ==
    /\ ParseIdle
    /\ BuildIdle
    /\ pkg = Uninit
    /\ GoIdle
    /\ RetryIdle
    /\ bk \in {NewBackoff(o) : o \in CounterOptions}
    /\ hist = NoHist
    /\ LogIdle
    /\ PoolIdle

NextBackoff ==
    \/ CallDuration
    \/ CallReset
    \/ CallAttempt

SpecBackoff == InitBackoff /\ [][NextBackoff]_vars

\* ForAttempt on a Backoff built from every combination of options.
InitForAttempt ==
    /\ ParseIdle
    /\ BuildIdle
    /\ pkg = Uninit
    /\ GoIdle
    /\ RetryIdle
    /\ bk \in {NewBackoff(o) : o \in OptionSets}
    /\ hist = NoHist
    /\ LogIdle
    /\ PoolIdle

NextForAttempt == \E n \in AttemptSamples : CallForAttempt(n)

SpecForAttempt == InitForAttempt /\ [][NextForAttempt]_vars

\* The heap after log.NewLogger(log.WithLevel(level)).
FirstLogger(level) == NewLogger(<<>>, <<>>, level)

\* WithField and WithFields chains from one StdLogger of every level.
InitFields ==
    /\ ParseIdle
    /\ BuildIdle
    /\ pkg = Uninit
    /\ GoIdle
    /\ RetryIdle
    /\ BackoffIdle
    /\ \E level \in LevelArgs \cup {InfoLevel} :
          /\ loggers = FirstLogger(level).loggers
          /\ fieldMaps = FirstLogger(level).fieldMaps
    /\ out = <<>>
    /\ exited = FALSE
    /\ logHist = NoLogCall
    /\ GlobalIdle
    /\ PoolIdle

NextFields ==
    \/ \E l \in DOMAIN loggers, key \in Keys, value \in Values :
          CallWithField(l, key, value)
    \/ \E l \in DOMAIN loggers, fields \in FieldArgs : CallWithFields(l, fields)

SpecFields == InitFields /\ [][NextFields]_vars

\* SetLevel and the logging methods on a StdLogger and on one derived from
\* it with every field map.
InitLevel ==
    /\ ParseIdle
    /\ BuildIdle
    /\ pkg = Uninit
    /\ GoIdle
    /\ RetryIdle
    /\ BackoffIdle
    /\ \E h \in {FirstLogger(InfoLevel)} \cup
                {WithFields(FirstLogger(InfoLevel).loggers,
                            FirstLogger(InfoLevel).fieldMaps, 1, fields) :
                     fields \in FieldArgs} :
          /\ loggers = h.loggers
          /\ fieldMaps = h.fieldMaps
    /\ out = <<>>
    /\ exited = FALSE
    /\ logHist = NoLogCall
    /\ GlobalIdle
    /\ PoolIdle

NextLevel ==
    \/ \E l \in DOMAIN loggers, level \in LevelArgs : CallSetLevel(l, level)
    \/ \E l \in DOMAIN loggers, level \in LogLevels, msg \in Msgs : CallLog(l, level, msg)
    \/ \E l \in DOMAIN loggers, msg \in Msgs : CallFatal(l, msg)

SpecLevel == InitLevel /\ [][NextLevel]_vars

\* Goroutines that call GetLogger and SetLogger concurrently; the program
\* holds one logger of its own to install.
InitGlobal ==
    /\ ParseIdle
    /\ BuildIdle
    /\ pkg = Uninit
    /\ GoIdle
    /\ RetryIdle
    /\ BackoffIdle
    /\ loggers = FirstLogger(InfoLevel).loggers
    /\ fieldMaps = FirstLogger(InfoLevel).fieldMaps
    /\ out = <<>>
    /\ exited = FALSE
    /\ logHist = NoLogCall
    /\ GlobalIdle
    /\ PoolIdle

NextGlobal ==
    \/ \E t \in Callers : CallGetLogger(t)
    \/ \E t \in Callers : GetRLock(t)
    \/ \E t \in Callers : GetCheck(t)
    \/ \E t \in Callers : GetNew(t)
    \/ \E t \in Callers : GetStore(t)
    \/ \E t \in Callers : GetReturn(t)
    \/ \E t \in Callers, logger \in DOMAIN loggers : CallSetLogger(t, logger)
    \/ \E t \in Callers : SetLock(t)
    \/ \E t \in Callers : SetAssign(t)

SpecGlobal == InitGlobal /\ [][NextGlobal]_vars

\* One pool, with and without metrics, its statistics goroutine and the
\* calls of its cleanup function.
InitPool ==
    /\ ParseIdle
    /\ BuildIdle
    /\ pkg = Uninit
    /\ GoIdle
    /\ RetryIdle
    /\ BackoffIdle
    /\ LogIdle
    /\ PoolIdle

NextPool ==
    \/ \E metrics \in BOOLEAN, ok \in BOOLEAN : CallNewGoroutinePool(metrics, ok)
    \/ Tick
    \/ StatTick
    \/ StatClosed
    \/ \E c \in Cleanups : CallCleanup(c)
    \/ \E c \in Cleanups : CleanupSend(c)
    \/ \E c \in Cleanups : CleanupRelease(c)

SpecPool == InitPool /\ [][NextPool]_vars

\* The scheduler runs the goroutine inside cleanup and the one inside stat:
\* a send that has room completes, and a select whose case <-p.closed stays
\* ready takes that case.
FairPool ==
    /\ WF_vars(\E c \in Cleanups : CleanupSend(c))
    /\ WF_vars(\E c \in Cleanups : CleanupRelease(c))
    /\ WF_vars(StatClosed)

SpecPoolFair == InitPool /\ [][NextPool]_vars /\ FairPool

(***************************************************************************)
(* Properties.                                                             *)
(***************************************************************************)
FastLinked == \E f \in Linked(goos, goarch) : f.impl # "slow"

\* C1: on a build that links a fast path, the values GetGoID() and
\* GetGoIDSlow() return to one goroutine are the same.
C1_FastEqualsSlow ==
    \A s \in Slots :
        (gs[s].live /\ FastLinked) =>
            \A a \in seenFast[s], b \in seenSlow[s] : a = b

\* C2: GetGoID takes a fast path only when the table lists the running
\* release, and then loads through the offset of that entry.
C2_FastPathOnlyWithEntry ==
    lastLoad.path \in {"asm", "getg"} =>
        \E i \in 1..Len(offsetDict) :
            /\ offsetDict[i].key = GoVer(toolchain.minor)
            /\ lastLoad.off = offsetDict[i].off

\* C3: extractGID returns a value for every byte sequence; it never panics.
C3_ExtractNeverPanics == parsed.st # "panicked"

\* Values whose decimal text the enumerated snapshots carry.
Int64Samples ==
    LET mags == {m \in UNION {[1..k -> {0, 1, 9}] : k \in 0..MaxSpan} :
                    m = <<>> \/ m[1] # 0}
    IN  {MkInt(n, m) : n \in BOOLEAN, m \in mags} \cup {MaxInt64, MinInt64}

\* s starts with "goroutine <v> ".
HasHeader(s, v) ==
    LET h == Label \o FormatInt(v) \o <<" ">>
    IN  Len(s) >= Len(h) /\ SubSeq(s, 1, Len(h)) = h

\* C4: for a snapshot "goroutine <d> <rest>" with <d> the decimal text of an
\* int64, extractGID returns exactly that integer, whatever follows.
C4_ExtractsDecimal ==
    parsed.st # "idle" =>
        \A v \in Int64Samples : HasHeader(snapshot, v) => parsed = Returned(v)

C4_Witness ==
    /\ snapshot = Label \o FormatInt(MinInt64) \o <<" ", "7", " ", "x">>
    /\ parsed = Returned(MinInt64)

\* C5: when the span between the label and the next space does not parse as
\* a signed base-10 64-bit integer, extractGID returns 0.
C5_ParseFailureYieldsZero ==
    parsed.st = "returned" =>
        LET rest == SubSeq(snapshot, Len(Label) + 1, Len(snapshot))
            span == SubSeq(rest, 1, IndexByte(rest, " "))
        IN  ParseInt(span).err # "nil" => parsed.gid = I64Zero

\* C6: two goroutines that are both live never hold a common GetGoIDSlow()
\* value; a value is seen again only once its holder has terminated.
C6_SlowIdsDistinct ==
    \A s \in Slots, t \in Slots :
        (s # t /\ gs[s].live /\ gs[t].live) => seenSlow[s] \cap seenSlow[t] = {}

C6_Witness ==
    \E s \in Slots, t \in Slots :
        /\ s # t /\ gs[s].live /\ gs[t].live
        /\ seenSlow[s] = {I64(10)}
        /\ seenSlow[t] = {I64(11)}

C8_ListedFormsResolve ==
    pkg.st # "uninit" =>
        \A i \in 1..Len(offsetDict) :
            LET k == offsetDict[i].key
            IN  /\ Cardinality({j \in 1..Len(offsetDict) : offsetDict[j].key = k}) = 1
                /\ toolchain.text \in {k, k \o <<".", "3">>, k \o <<"r", "c", "1">>}
                      => (pkg.st = "ready" /\ Offset = offsetDict[i].off)

\* C9: when the truncated key of the version string is not in the table,
\* whatever the form of the string, resolution completes with offset 0 and
\* the amd64 GetGoID loads the word at offset 0.
C9_UnlistedYieldsZero ==
    LET parts == Split(toolchain.text, ".")
        key == Join(SubSeq(parts, 1, IF Len(parts) < 2 THEN Len(parts) ELSE 2), ".")
    IN  (goarch = "amd64" /\ pkg.st # "uninit" /\ key \notin DictKeys(offsetDict)) =>
            /\ pkg = Ready(0)
            /\ lastLoad.path = "asm" => lastLoad.off = 0

\* C10: every (GOOS, GOARCH) links exactly one GetGoID: the assembly on
\* amd64, getg() on arm64 except Windows, the slow path elsewhere; and every
\* call runs that definition.
C10_OneDefinitionPerPair ==
    LET want == IF goarch = "amd64" THEN "asm"
                ELSE IF goarch = "arm64" /\ goos # "windows" THEN "getg"
                ELSE "slow"
    IN  /\ Cardinality(Linked(goos, goarch)) = 1
        /\ \A f \in Linked(goos, goarch) : f.impl = want
        /\ lastLoad.path # "none" => lastLoad.path = want

C10_Witness ==
    /\ goos = "windows"
    /\ goarch = "arm64"
    /\ lastLoad.path = "slow"

\* C11: all the values GetGoID() returned to one goroutine are the same
\* value, however many calls it made.
C11_RepeatedCallsAgree ==
    \A s \in Slots : \A a \in seenFast[s], b \in seenFast[s] : a = b

\* C12: for every int64 identifier the header "goroutine <id> " lies inside
\* the 128-byte buffer, and extractGID returns from the truncated snapshot
\* what it returns from the whole text: the identifier.
C12_HeaderFitsBuffer ==
    \A id \in StackIds :
        /\ Len(Label \o FormatInt(id) \o <<" ">>) <= initialBufferSize
        /\ (snapshot = StackOf(id, initialBufferSize) /\ parsed.st # "idle") =>
              /\ HasHeader(snapshot, id)
              /\ parsed = extractGID(StackText(id))
              /\ parsed = Returned(id)

C12_Witness ==
    /\ snapshot = StackOf(MinInt64, initialBufferSize)
    /\ Len(snapshot) = initialBufferSize
    /\ Len(StackText(MinInt64)) > initialBufferSize
    /\ parsed = Returned(MinInt64)

\* C13: when ctx is already done at the call of RetryWithContext, fn is
\* never invoked and the call returns ctx.Err(), which is not nil.
C13_DoneContextSkipsFn ==
    rw.doneAt = "call" =>
        /\ fn.calls = 0
        /\ rw.pc \in {"head", "returned"}
        /\ rw.pc = "returned" => (rw.ret = CtxErr(ctx) /\ rw.ret # "nil")

C13_Witness ==
    /\ rw.doneAt = "call"
    /\ rw.pc = "returned"
    /\ rw.ret = "context.DeadlineExceeded"
    /\ fn.calls = 0

\* C14: with a context that is not done, an fn that fails exactly k times is
\* never invoked more than k + 1 times, and a call that has returned has
\* invoked it exactly k + 1 times and returned nil.
C14_FailsThenSucceeds ==
    (~fn.forever /\ ~CtxDone(ctx)) =>
        /\ fn.calls <= fn.fails + 1
        /\ rw.pc = "returned" => (fn.calls = fn.fails + 1 /\ rw.ret = "nil")

C14_Witness ==
    /\ rw.entry = "Retry"
    /\ fn = [Plan(MaxFail, FALSE) EXCEPT !.calls = MaxFail + 1]
    /\ rw.pc = "returned"
    /\ rw.ret = "nil"
    /\ bk.attempt = MaxFail

\* C15: a call whose fn fails at every attempt, under a context that is never
\* done, eventually returns, and what it returns is the error of an attempt.
C15_ReturnsLastError ==
    [](( fn.forever /\ ctx = "background" /\ rw.pc = "head" )
          => <>(rw.pc = "returned" /\ rw.ret = "fn error"))

Succeeded == fn.calls >= 1 /\ rw.err = 0

C17_DurationCountsAttempts ==
    /\ Attempt(bk) = hist.calls
    /\ hist.op = "Duration" =>
          /\ hist.d = ForAttempt(bk, hist.pre, hist.rnd)
          /\ bk.attempt = hist.pre + 1
          /\ hist.calls = 1 => hist.d = ForAttempt(bk, 0, hist.rnd)
    /\ hist.op = "Reset" => bk.attempt = 0
    /\ hist.op = "Attempt" => hist.a = hist.calls

C17_Witness ==
    /\ hist.op = "Duration"
    /\ hist.reset
    /\ hist.calls = 1
    /\ ~bk.jitter
    /\ hist.d = Nanoseconds(100)
    /\ ForAttempt(bk, 1, NoDraw) = Nanoseconds(175)

\* The parameters a Backoff stands for: a non-positive min, max or factor is
\* 100ms, 10s or 2.
RefMin(bo) == IF NonPositive(bo.min) THEN Milliseconds(100) ELSE bo.min

RefMax(bo) == IF NonPositive(bo.max) THEN Seconds(10) ELSE bo.max

RefFactor(bo) ==
    IF bo.factor.neg \/ bo.factor.num = 0 THEN Ratio(FALSE, 2, 1) ELSE bo.factor

I64LessEq(x, y) == x = y \/ I64Less(x, y)

\* min * factor^n truncated to a whole number of nanoseconds and clamped to
\* [min, max]; max when min >= max.
ClampedPower(bo, n) ==
    LET f == RefFactor(bo)
        p == MkInt(FALSE, DivPow(MulPow(RefMin(bo).mag, f.num, n), f.den, n))
    IN  IF ~I64Less(RefMin(bo), RefMax(bo)) THEN RefMax(bo)
        ELSE IF I64Less(p, RefMin(bo)) THEN RefMin(bo)
        ELSE IF I64Less(RefMax(bo), p) THEN RefMax(bo)
        ELSE p

\* C18: without jitter ForAttempt(n) is max when min >= max and otherwise
\* min * factor^n truncated and clamped to [min, max], with the defaults for
\* non-positive parameters; the next attempt gives no less, and gives max
\* when this one gave max.
C18_ClampedExponential ==
    (hist.op = "ForAttempt" /\ ~bk.jitter) =>
        /\ hist.d = ClampedPower(bk, hist.a)
        /\ I64LessEq(hist.d, ForAttempt(bk, hist.a + 1, NoDraw))
        /\ hist.d = RefMax(bk) => ForAttempt(bk, hist.a + 1, NoDraw) = RefMax(bk)

C18_Witness ==
    /\ hist.op = "ForAttempt"
    /\ ~bk.jitter
    /\ bk.factor = Ratio(FALSE, 3, 2)
    /\ bk.min = I64Zero
    /\ hist.a = 2
    /\ hist.d = Milliseconds(225)
    /\ ForAttempt(bk, LargeAttempt, NoDraw) = RefMax(bk)

\* C19: when min < max, ForAttempt(n) lies in [min, max] with and without
\* jitter; with jitter it is at most the value without jitter for the same
\* n, and for n = 0 it is min.
C19_WithinBounds ==
    (hist.op = "ForAttempt" /\ I64Less(RefMin(bk), RefMax(bk))) =>
        /\ I64LessEq(RefMin(bk), hist.d)
        /\ I64LessEq(hist.d, RefMax(bk))
        /\ bk.jitter =>
              /\ I64LessEq(hist.d, ForAttempt([bk EXCEPT !.jitter = FALSE], hist.a, NoDraw))
              /\ hist.a = 0 => hist.d = RefMin(bk)

C19_Witness ==
    /\ hist.op = "ForAttempt"
    /\ bk.jitter
    /\ hist.a = 2
    /\ hist.rnd = Ratio(FALSE, 1, 2)
    /\ I64Less(RefMin(bk), hist.d)
    /\ I64Less(hist.d, ForAttempt([bk EXCEPT !.jitter = FALSE], hist.a, NoDraw))
    /\ I64Less(ForAttempt([bk EXCEPT !.jitter = FALSE], hist.a, NoDraw), RefMax(bk))

\* C21: global logger management is thread-safe: while no logger has been
\* set, GetLogger creates exactly one default logger and every call returns
\* that same instance; and a GetLogger call made after SetLogger(l) returned,
\* with no other SetLogger since, returns l.
C21_OneGlobalLogger ==
    /\ Cardinality(seenGlobal.created) <= 1
    /\ Cardinality(seenGlobal.returned) <= 1
    /\ \A t \in Callers :
          (callers[t].op = "GetLogger" /\ callers[t].pc = "idle" /\ callers[t].since > 0)
              => callers[t].ret = callers[t].since

\* C22: WithField and WithFields return a new StdLogger that carries the
\* receiver's fields plus the added ones, an added key overriding an
\* existing one, and leave the receiver's field set and level as they were;
\* this holds for every call of a chain.
C22_DerivedCarriesFields ==
    logHist.op \in {"WithField", "WithFields"} =>
        LET h == logHist
            child == loggers[h.r]
            got == fieldMaps[child.fields]
        IN  /\ h.r # h.l
            /\ child.fields # loggers[h.l].fields
            /\ DOMAIN got = DOMAIN h.preFields \cup DOMAIN h.added
            /\ \A k \in DOMAIN got :
                  got[k] = IF k \in DOMAIN h.added THEN h.added[k] ELSE h.preFields[k]
            /\ fieldMaps[loggers[h.l].fields] = h.preFields
            /\ loggers[h.l].level = h.preLevel

\* A derived logger is the receiver and the added key overrides one of its
\* fields.
C22_Witness ==
    /\ logHist.op = "WithField"
    /\ logHist.l > 1
    /\ \E k \in DOMAIN logHist.added \cap DOMAIN logHist.preFields :
          logHist.added[k] # logHist.preFields[k]
    /\ DOMAIN logHist.preFields # DOMAIN logHist.added

\* C23: after any sequence of SetLevel calls, a logging call at level L on
\* a StdLogger writes one record if L is at or above the logger's current
\* level and writes nothing if L is below it.
C23_EmitsIffAtOrAbove ==
    logHist.op \in {"log", "Fatal"} =>
        IF logHist.level >= loggers[logHist.l].level
        THEN /\ Len(out) = logHist.preOut + 1
             /\ out[Len(out)].level = LevelStr(logHist.level)
             /\ out[Len(out)].logger = loggers[logHist.l].logger
        ELSE Len(out) = logHist.preOut

\* After SetLevel(WarnLevel) an Error call has written its record.
C23_Witness ==
    /\ logHist.op = "log"
    /\ logHist.level = ErrorLevel
    /\ loggers[logHist.l].level = WarnLevel
    /\ Len(out) = logHist.preOut + 1

\* C24: every call of the cleanup function returned by NewGoroutinePool
\* returns, a second and a third call included, with metrics enabled or
\* disabled: no call is left at the send on p.closed with the buffer full
\* and no goroutine to receive from it.
C24_CleanupNeverStuck ==
    \A c \in Cleanups :
        ~(cleanups[c] = "send" /\ pool.closed = closedCap /\ statG.pc # "select")

\* C25: with metrics enabled, the statistics goroutine publishes nothing
\* after it has received the value of p.closed, and once cleanup has been
\* called it eventually terminates.
C25_StatStops ==
    /\ [](statG.late = 0)
    /\ ((pool.metrics /\ cleanups[1] # "idle") ~> (statG.pc = "exited"))

\* The statistics goroutine has published and then ended on the close
\* notification of a cleanup call that has returned.
C25_Witness ==
    /\ pool.metrics
    /\ statG.pc = "exited"
    /\ statG.got
    /\ statG.published > 0
    /\ cleanups[1] = "returned"

====
